---- MODULE Spec2Model ----
(***************************************************************************)
(* Model of the lcbex view-option library (src/src/viewopts.c).            *)
(*                                                                         *)
(* Strings are sequences of byte values (0..255).  A C buffer is modelled  *)
(* by its content; the byte that follows the content is the NUL            *)
(* terminator.  A pointer is a record [k, id, mem]: k says whose memory it *)
(* is ("null", "caller", "registry", "literal", "heap"), id identifies a   *)
(* heap block and mem is the bytes it points at.  The flag word is the set *)
(* of the bits that are set in it.                                         *)
(***************************************************************************)
EXTENDS Integers, Sequences, FiniteSets, TLC

\* ------------------------------------------------------------------------
\* Bounds of the exploration
\* ------------------------------------------------------------------------
MaxCleanups == 2   \* consecutive lcbex_vopt_cleanup calls on one record
MaxSlice    == 2   \* explicit lengths 0..MaxSlice are tried on sliced buffers
MaxInt      == 2   \* numeric values range over -MaxInt..MaxInt (plus a few)
MaxId       == 18  \* numeric option ids range over 0..MaxId
MaxPairs    == 9   \* key/value pairs passed to lcbex_vopt_createv (capacity is 8)
MaxOpts     == 3   \* records in a list handed to the lcbex_vqstr functions

\* ------------------------------------------------------------------------
\* Program constants
\* ------------------------------------------------------------------------
SIZE_MAX == -1     \* (size_t)-1, the "compute the length" sentinel

LCB_SUCCESS == "LCB_SUCCESS"
LCB_EINVAL  == "LCB_EINVAL"

LCBEX_VOPT_F_PCTENCODE        == 1
LCBEX_VOPT_F_OPTVAL_NUMERIC   == 2
LCBEX_VOPT_F_PASSTHROUGH      == 4
LCBEX_VOPT_F_OPTVAL_CONSTANT  == 8
LCBEX_VOPT_F_OPTNAME_CONSTANT == 16
LCBEX_VOPT_F_OPTNAME_NUMERIC  == 32

AllFlagBits == {LCBEX_VOPT_F_PCTENCODE, LCBEX_VOPT_F_OPTVAL_NUMERIC,
                LCBEX_VOPT_F_PASSTHROUGH, LCBEX_VOPT_F_OPTVAL_CONSTANT,
                LCBEX_VOPT_F_OPTNAME_CONSTANT, LCBEX_VOPT_F_OPTNAME_NUMERIC}

\* Registry names (LCBEX_XVOPT) and the handlers' literals, as bytes
S_descending == <<100, 101, 115, 99, 101, 110, 100, 105, 110, 103>>
S_endkey == <<101, 110, 100, 107, 101, 121>>
S_endkey_docid == <<101, 110, 100, 107, 101, 121, 95, 100, 111, 99, 105, 100>>
S_full_set == <<102, 117, 108, 108, 95, 115, 101, 116>>
S_group == <<103, 114, 111, 117, 112>>
S_group_level == <<103, 114, 111, 117, 112, 95, 108, 101, 118, 101, 108>>
S_inclusive_end == <<105, 110, 99, 108, 117, 115, 105, 118, 101, 95, 101, 110, 100>>
S_keys == <<107, 101, 121, 115>>
S_key == <<107, 101, 121>>
S_on_error == <<111, 110, 95, 101, 114, 114, 111, 114>>
S_reduce == <<114, 101, 100, 117, 99, 101>>
S_stale == <<115, 116, 97, 108, 101>>
S_skip == <<115, 107, 105, 112>>
S_limit == <<108, 105, 109, 105, 116>>
S_startkey == <<115, 116, 97, 114, 116, 107, 101, 121>>
S_startkey_docid == <<115, 116, 97, 114, 116, 107, 101, 121, 95, 100, 111, 99, 105, 100>>
S_debug == <<100, 101, 98, 117, 103>>
S_true == <<116, 114, 117, 101>>
S_false == <<102, 97, 108, 115, 101>>
S_ok == <<111, 107>>
S_update_after == <<117, 112, 100, 97, 116, 101, 95, 97, 102, 116, 101, 114>>
S_stop == <<115, 116, 111, 112>>
S_continue == <<99, 111, 110, 116, 105, 110, 117, 101>>

\* static view_param recognized_view_params[] (the NULL sentinel is the end
\* of the sequence)
recognized_view_params ==
  << [itype |-> 1,  param |-> S_descending,     handler |-> "bool"],
     [itype |-> 2,  param |-> S_endkey,         handler |-> "string"],
     [itype |-> 3,  param |-> S_endkey_docid,   handler |-> "string"],
     [itype |-> 4,  param |-> S_full_set,       handler |-> "bool"],
     [itype |-> 5,  param |-> S_group,          handler |-> "bool"],
     [itype |-> 6,  param |-> S_group_level,    handler |-> "num"],
     [itype |-> 7,  param |-> S_inclusive_end,  handler |-> "bool"],
     [itype |-> 8,  param |-> S_keys,           handler |-> "string"],
     [itype |-> 9,  param |-> S_key,            handler |-> "string"],
     [itype |-> 10, param |-> S_on_error,       handler |-> "onerror"],
     [itype |-> 11, param |-> S_reduce,         handler |-> "bool"],
     [itype |-> 12, param |-> S_stale,          handler |-> "stale"],
     [itype |-> 13, param |-> S_skip,           handler |-> "num"],
     [itype |-> 14, param |-> S_limit,          handler |-> "num"],
     [itype |-> 15, param |-> S_startkey,       handler |-> "string"],
     [itype |-> 16, param |-> S_startkey_docid, handler |-> "string"],
     [itype |-> 17, param |-> S_debug,          handler |-> "bool"] >>

\* ------------------------------------------------------------------------
\* The C library functions the code calls
\* ------------------------------------------------------------------------
\* the byte at 1-based position i of a buffer; the terminator follows the
\* content
Byte(mem, i) == IF i >= 1 /\ i <= Len(mem) THEN mem[i] ELSE 0

\* the first n bytes behind a pointer (what memcpy(dst, p, n) copies)
Take(mem, n) == [i \in 1..n |-> Byte(mem, i)]

RECURSIVE strlen_from(_, _)
strlen_from(mem, i) ==
  IF Byte(mem, i) = 0 THEN i - 1 ELSE strlen_from(mem, i + 1)

strlen(mem) == strlen_from(mem, 1)

tolower(c) == IF c >= 65 /\ c <= 90 THEN c + 32 ELSE c

isdigit(c) == c >= 48 /\ c <= 57

RECURSIVE strncmp_from(_, _, _, _)
strncmp_from(a, b, n, i) ==
  IF i > n THEN 0
  ELSE IF Byte(a, i) # Byte(b, i)
       THEN (IF Byte(a, i) < Byte(b, i) THEN -1 ELSE 1)
  ELSE IF Byte(a, i) = 0 THEN 0
  ELSE strncmp_from(a, b, n, i + 1)

strncmp(a, b, n) == strncmp_from(a, b, n, 1)

RECURSIVE strncasecmp_from(_, _, _, _)
strncasecmp_from(a, b, n, i) ==
  IF i > n THEN 0
  ELSE IF tolower(Byte(a, i)) # tolower(Byte(b, i))
       THEN (IF tolower(Byte(a, i)) < tolower(Byte(b, i)) THEN -1 ELSE 1)
  ELSE IF Byte(a, i) = 0 THEN 0
  ELSE strncasecmp_from(a, b, n, i + 1)

strncasecmp(a, b, n) == strncasecmp_from(a, b, n, 1)

\* snprintf(buf, 128, "%d", v)
RECURSIVE FmtUnsigned(_)
FmtUnsigned(v) ==
  IF v < 10 THEN <<48 + v>>
  ELSE Append(FmtUnsigned(v \div 10), 48 + (v % 10))

\* variant: the sign is dropped (%u of the magnitude)
FmtInt_nosign(v) == IF v < 0 THEN FmtUnsigned(0 - v) ELSE FmtUnsigned(v)

FmtInt(v) == IF v < 0 THEN <<45>> \o FmtUnsigned(0 - v) ELSE FmtUnsigned(v)

\* the four bytes of an int object, least significant first
IntBytes(v) ==
  LET u == IF v < 0 THEN v + 2147483647 + 1 ELSE v    \* low 31 bits
      top == (u \div 16777216) + (IF v < 0 THEN 128 ELSE 0)
  IN << u % 256, (u \div 256) % 256, (u \div 65536) % 256, top >>

\* ------------------------------------------------------------------------
\* Pointers and the option record
\* ------------------------------------------------------------------------
NullPtr == [k |-> "null", id |-> 0, mem |-> << >>]

CallerPtr(mem)   == [k |-> "caller",   id |-> 0, mem |-> mem]
RegistryPtr(mem) == [k |-> "registry", id |-> 0, mem |-> mem]
LiteralPtr(mem)  == [k |-> "literal",  id |-> 0, mem |-> mem]
HeapPtr(id, mem) == [k |-> "heap",     id |-> id, mem |-> mem]

\* heap block ids: one for the record's name, one for its value
NameBlock  == "name"
ValueBlock == "value"

\* memset(optobj, 0, sizeof(*optobj))
ZeroOpt == [optname |-> NullPtr, optval |-> NullPtr,
            noptname |-> 0, noptval |-> 0, flags |-> {}]

\* what a handler or lcbex_vopt_assign hands back: the return code, the
\* error string (*error), the record as it leaves it, and the heap blocks it
\* obtained from malloc/calloc
Outcome(err, error, optobj, allocs) ==
  [err |-> err, error |-> error, optobj |-> optobj, allocs |-> allocs]

\* ------------------------------------------------------------------------
\* my_strndup and set_user_string
\* ------------------------------------------------------------------------
\* calloc(n + 1, 1) then strncpy(buf, s, n): bytes are copied up to the first
\* NUL of s, the rest of the n bytes stay zero
my_strndup(s, n) ==
  [i \in 1..n |-> IF i <= strlen(s) THEN Byte(s, i) ELSE 0]

set_user_string(optobj, value, nvalue, flags) ==
  IF LCBEX_VOPT_F_OPTVAL_CONSTANT \in flags
  THEN [optobj |-> [optobj EXCEPT !.noptval = nvalue,
                                  !.optval = CallerPtr(value),
                                  !.flags = @ \cup {LCBEX_VOPT_F_OPTVAL_CONSTANT}],
        allocs |-> {}]
  ELSE [optobj |-> [optobj EXCEPT !.noptval = nvalue,
                                  !.optval = HeapPtr(ValueBlock, my_strndup(value, nvalue)),
                                  !.flags = @ \ {LCBEX_VOPT_F_OPTVAL_CONSTANT}],
        allocs |-> {ValueBlock}]

\* ------------------------------------------------------------------------
\* Handlers.  value is the memory behind the value pointer, ival the int it
\* holds when it is read as *(int *)value.
\* ------------------------------------------------------------------------
\* variant: the comparisons are case-sensitive (strncmp)
bool_param_handler_cs(optobj, value, ival, nvalue, flags, error) ==
  LET bval == IF LCBEX_VOPT_F_OPTVAL_NUMERIC \in flags THEN ival
              ELSE IF strncmp(S_true, value, nvalue) = 0 THEN 1
              ELSE IF strncmp(S_false, value, nvalue) = 0 THEN 0
              ELSE -1
      lit == IF bval # 0 THEN S_true ELSE S_false
  IN IF LCBEX_VOPT_F_OPTVAL_NUMERIC \notin flags /\ bval = -1
     THEN Outcome(LCB_EINVAL, "String must be either 'true' or 'false'",
                  optobj, {})
     ELSE Outcome(LCB_SUCCESS, "NULL",
                  [optobj EXCEPT !.optval = LiteralPtr(lit),
                                 !.noptval = strlen(lit),
                                 !.flags = @ \cup {LCBEX_VOPT_F_OPTVAL_CONSTANT}],
                  {})

\* variant: only the integer 1 is true
bool_param_handler_onlyone(optobj, value, ival, nvalue, flags, error) ==
  LET bval == IF LCBEX_VOPT_F_OPTVAL_NUMERIC \in flags THEN ival
              ELSE IF strncasecmp(S_true, value, nvalue) = 0 THEN 1
              ELSE IF strncasecmp(S_false, value, nvalue) = 0 THEN 0
              ELSE -1
      lit == IF bval = 1 THEN S_true ELSE S_false
  IN IF LCBEX_VOPT_F_OPTVAL_NUMERIC \notin flags /\ bval = -1
     THEN Outcome(LCB_EINVAL, "String must be either 'true' or 'false'",
                  optobj, {})
     ELSE Outcome(LCB_SUCCESS, "NULL",
                  [optobj EXCEPT !.optval = LiteralPtr(lit),
                                 !.noptval = strlen(lit),
                                 !.flags = @ \cup {LCBEX_VOPT_F_OPTVAL_CONSTANT}],
                  {})

bool_param_handler(optobj, value, ival, nvalue, flags, error) ==
  LET bval == IF LCBEX_VOPT_F_OPTVAL_NUMERIC \in flags THEN ival
              ELSE IF strncasecmp(S_true, value, nvalue) = 0 THEN 1
              ELSE IF strncasecmp(S_false, value, nvalue) = 0 THEN 0
              ELSE -1
      lit == IF bval # 0 THEN S_true ELSE S_false
  IN IF LCBEX_VOPT_F_OPTVAL_NUMERIC \notin flags /\ bval = -1
     THEN Outcome(LCB_EINVAL, "String must be either 'true' or 'false'",
                  optobj, {})
     ELSE Outcome(LCB_SUCCESS, "NULL",
                  [optobj EXCEPT !.optval = LiteralPtr(lit),
                                 !.noptval = strlen(lit),
                                 !.flags = @ \cup {LCBEX_VOPT_F_OPTVAL_CONSTANT}],
                  {})

\* for (ii = 1; ii < nvalue; ii++) if (!isdigit(istr[ii])) ...
RestAreDigits(istr, nvalue) ==
  \A ii \in 1..(nvalue - 1) : isdigit(Byte(istr, ii + 1))

num_param_handler(optobj, value, ival, nvalue, flags, error) ==
  IF LCBEX_VOPT_F_OPTVAL_NUMERIC \in flags
  THEN LET numbuf == FmtInt(ival)
       IN Outcome(LCB_SUCCESS, error,
                  [optobj EXCEPT !.noptval = Len(numbuf),
                                 !.optval = HeapPtr(ValueBlock, numbuf),
                                 !.flags = @ \ {LCBEX_VOPT_F_OPTVAL_CONSTANT}],
                  {ValueBlock})
  ELSE LET n == IF nvalue = SIZE_MAX THEN strlen(value) ELSE nvalue
       IN IF n = 0
          THEN Outcome(LCB_EINVAL, "Received an empty string", optobj, {})
          ELSE IF ~isdigit(Byte(value, 1)) /\ Byte(value, 1) # 45
          THEN Outcome(LCB_EINVAL,
                       "String must consist entirely of a signed number",
                       optobj, {})
          ELSE IF ~RestAreDigits(value, n)
          THEN Outcome(LCB_EINVAL, "String must consist entirely of digits",
                       optobj, {})
          ELSE LET r == set_user_string(optobj, value, n, flags)
               IN Outcome(LCB_SUCCESS, error, r.optobj, r.allocs)

needs_pct_encoding(c) ==
  ~ \/ (c >= 97 /\ c <= 122)
    \/ (c >= 65 /\ c <= 90)
    \/ (c >= 48 /\ c <= 57)
    \/ c \in {45, 95, 46}

\* the two characters of sprintf("%02X", c)
HexDigit_lower(d) == IF d < 10 THEN 48 + d ELSE 87 + d   \* variant: "%02x"

HexDigit(d) == IF d < 10 THEN 48 + d ELSE 55 + d

RECURSIVE do_pct_encode_from(_, _, _)
do_pct_encode_from(src, nsrc, ii) ==
  IF ii > nsrc THEN << >>
  ELSE (IF needs_pct_encoding(Byte(src, ii))
        THEN <<37, HexDigit(Byte(src, ii) \div 16), HexDigit(Byte(src, ii) % 16)>>
        ELSE <<Byte(src, ii)>>)
       \o do_pct_encode_from(src, nsrc, ii + 1)

do_pct_encode(src, nsrc) == do_pct_encode_from(src, nsrc, 1)

\* the size loop of string_param_handler
NeededSize(str, nvalue) ==
  nvalue + 2 * Cardinality({ii \in 1..nvalue : needs_pct_encoding(Byte(str, ii))})

\* variant: the numeric-value flag is not looked at
string_param_handler_anyvalue(optobj, value, ival, nvalue, flags, error) ==
  IF LCBEX_VOPT_F_PCTENCODE \notin flags \/ NeededSize(value, nvalue) = nvalue
  THEN LET r == set_user_string(optobj, value, nvalue, flags)
       IN Outcome(LCB_SUCCESS, error, r.optobj, r.allocs)
  ELSE LET enc == do_pct_encode(value, nvalue)
       IN Outcome(LCB_SUCCESS, error,
                  [optobj EXCEPT !.optval = HeapPtr(ValueBlock, enc),
                                 !.noptval = Len(enc)],
                  {ValueBlock})

string_param_handler(optobj, value, ival, nvalue, flags, error) ==
  IF LCBEX_VOPT_F_OPTVAL_NUMERIC \in flags
  THEN Outcome(LCB_EINVAL, "Option requires a string value", optobj, {})
  ELSE IF LCBEX_VOPT_F_PCTENCODE \notin flags \/ NeededSize(value, nvalue) = nvalue
  THEN LET r == set_user_string(optobj, value, nvalue, flags)
       IN Outcome(LCB_SUCCESS, error, r.optobj, r.allocs)
  ELSE LET enc == do_pct_encode(value, nvalue)
       IN Outcome(LCB_SUCCESS, error,
                  [optobj EXCEPT !.optval = HeapPtr(ValueBlock, enc),
                                 !.noptval = Len(enc)],
                  {ValueBlock})

\* variant: a boolean result is passed on as it is ("true" is not turned
\* into "ok")
stale_param_handler_nomap(optobj, value, ival, nvalue, flags, error) ==
  LET o1 == [optobj EXCEPT !.flags = @ \cup {LCBEX_VOPT_F_OPTVAL_CONSTANT}]
      b  == bool_param_handler(o1, value, ival, nvalue, flags, error)
  IN IF b.err = LCB_SUCCESS
     THEN b
     ELSE IF strncasecmp(S_update_after, value, nvalue) = 0
     THEN Outcome(LCB_SUCCESS, b.error,
                  [o1 EXCEPT !.optval = LiteralPtr(S_update_after),
                             !.noptval = 12], {})
     ELSE IF strncasecmp(S_ok, value, nvalue) = 0
     THEN Outcome(LCB_SUCCESS, b.error,
                  [o1 EXCEPT !.optval = LiteralPtr(S_ok), !.noptval = 2], {})
     ELSE Outcome(LCB_EINVAL,
                  "stale must be a boolean or the string 'update_after'",
                  o1, {})

stale_param_handler(optobj, value, ival, nvalue, flags, error) ==
  LET o1 == [optobj EXCEPT !.flags = @ \cup {LCBEX_VOPT_F_OPTVAL_CONSTANT}]
      b  == bool_param_handler(o1, value, ival, nvalue, flags, error)
  IN IF b.err = LCB_SUCCESS
     THEN (IF Byte(b.optobj.optval.mem, 1) = 116
           THEN Outcome(LCB_SUCCESS, b.error,
                        [b.optobj EXCEPT !.optval = LiteralPtr(S_ok),
                                         !.noptval = 2], {})
           ELSE b)
     ELSE IF strncasecmp(S_update_after, value, nvalue) = 0
     THEN Outcome(LCB_SUCCESS, b.error,
                  [o1 EXCEPT !.optval = LiteralPtr(S_update_after),
                             !.noptval = 12], {})
     ELSE IF strncasecmp(S_ok, value, nvalue) = 0
     THEN Outcome(LCB_SUCCESS, b.error,
                  [o1 EXCEPT !.optval = LiteralPtr(S_ok), !.noptval = 2], {})
     ELSE Outcome(LCB_EINVAL,
                  "stale must be a boolean or the string 'update_after'",
                  o1, {})

onerror_param_handler(optobj, value, ival, nvalue, flags, error) ==
  LET o1 == [optobj EXCEPT !.flags = @ \cup {LCBEX_VOPT_F_OPTVAL_CONSTANT}]
      msg == "on_error must be one of 'continue' or 'stop'"
  IN IF strncasecmp(S_stop, value, nvalue) = 0
     THEN Outcome(LCB_SUCCESS, msg,
                  [o1 EXCEPT !.optval = LiteralPtr(S_stop), !.noptval = 4], {})
     ELSE IF strncasecmp(S_continue, value, nvalue) = 0
     THEN Outcome(LCB_SUCCESS, msg,
                  [o1 EXCEPT !.optval = LiteralPtr(S_continue), !.noptval = 8], {})
     ELSE Outcome(LCB_EINVAL, msg, o1, {})

\* vparam->handler(vparam, optobj, value, nvalue, flags, error_string)
CallHandler(h, optobj, value, ival, nvalue, flags, error) ==
  CASE h = "bool"    -> bool_param_handler(optobj, value, ival, nvalue, flags, error)
    [] h = "num"     -> num_param_handler(optobj, value, ival, nvalue, flags, error)
    [] h = "string"  -> string_param_handler(optobj, value, ival, nvalue, flags, error)
    [] h = "stale"   -> stale_param_handler(optobj, value, ival, nvalue, flags, error)
    [] h = "onerror" -> onerror_param_handler(optobj, value, ival, nvalue, flags, error)

\* ------------------------------------------------------------------------
\* find_view_param and lcbex_vopt_assign.  An argument (option or value) is
\* a record [num, i, mem]: num says the caller passed the address of an int,
\* i is that int and mem the bytes at the address.
\* ------------------------------------------------------------------------
RECURSIVE find_view_param_from(_, _, _, _)
find_view_param_from(option, noption, flags, ix) ==
  IF ix > Len(recognized_view_params) THEN 0
  ELSE IF LCBEX_VOPT_F_OPTNAME_NUMERIC \in flags
       THEN (IF option.i = recognized_view_params[ix].itype THEN ix
             ELSE find_view_param_from(option, noption, flags, ix + 1))
       ELSE (IF strncmp(option.mem, recognized_view_params[ix].param, noption) = 0
             THEN ix
             ELSE find_view_param_from(option, noption, flags, ix + 1))

\* the index of the matching table entry, 0 for NULL
\* variant: the search starts at the second entry
find_view_param_skipfirst(option, noption, flags) ==
  find_view_param_from(option, noption, flags, 2)

find_view_param(option, noption, flags) ==
  find_view_param_from(option, noption, flags, 1)

\* the name part of the non-passthrough path (lines 438-452)
\* variant: a name taken from the registry is not marked constant
AssignName_noflag(optobj, vparam, option, noption, flags) ==
  IF LCBEX_VOPT_F_OPTNAME_NUMERIC \in flags
  THEN [optobj |-> [optobj EXCEPT !.optname = RegistryPtr(vparam.param),
                                  !.noptname = strlen(vparam.param),
                                  !.flags = @],
        allocs |-> {}]
  ELSE IF LCBEX_VOPT_F_OPTNAME_CONSTANT \in flags
  THEN [optobj |-> [optobj EXCEPT !.noptname = noption,
                                  !.optname = CallerPtr(option.mem)],
        allocs |-> {}]
  ELSE [optobj |-> [optobj EXCEPT !.noptname = noption,
                                  !.optname = HeapPtr(NameBlock, my_strndup(option.mem, noption))],
        allocs |-> {NameBlock}]

AssignName(optobj, vparam, option, noption, flags) ==
  IF LCBEX_VOPT_F_OPTNAME_NUMERIC \in flags
  THEN [optobj |-> [optobj EXCEPT !.optname = RegistryPtr(vparam.param),
                                  !.noptname = strlen(vparam.param),
                                  !.flags = @ \cup {LCBEX_VOPT_F_OPTNAME_CONSTANT}],
        allocs |-> {}]
  ELSE IF LCBEX_VOPT_F_OPTNAME_CONSTANT \in flags
  THEN [optobj |-> [optobj EXCEPT !.noptname = noption,
                                  !.optname = CallerPtr(option.mem)],
        allocs |-> {}]
  ELSE [optobj |-> [optobj EXCEPT !.noptname = noption,
                                  !.optname = HeapPtr(NameBlock, my_strndup(option.mem, noption))],
        allocs |-> {NameBlock}]

\* variant: passthrough does not refuse a numeric option name
lcbex_vopt_assign_nonamecheck(option, noption0, value, nvalue0, flags, error0) ==
  LET nvalue  == IF nvalue0 = SIZE_MAX THEN strlen(value.mem) ELSE nvalue0
      noption == IF noption0 = SIZE_MAX THEN strlen(option.mem) ELSE noption0
  IN IF LCBEX_VOPT_F_OPTVAL_NUMERIC \notin flags /\ nvalue = 0
     THEN Outcome(LCB_EINVAL, "Missing value length", ZeroOpt, {})
     ELSE IF LCBEX_VOPT_F_OPTNAME_NUMERIC \notin flags /\ noption = 0
     THEN Outcome(LCB_EINVAL, "Missing option name length", ZeroOpt, {})
     ELSE IF LCBEX_VOPT_F_PASSTHROUGH \in flags
     THEN (IF FALSE
           THEN Outcome(LCB_EINVAL,
                        "Can't use passthrough with option constants",
                        ZeroOpt, {})
           ELSE LET o1 == [ZeroOpt EXCEPT
                             !.optname = HeapPtr(NameBlock, my_strndup(option.mem, noption)),
                             !.noptname = noption]
                    h  == IF LCBEX_VOPT_F_OPTVAL_NUMERIC \in flags
                          THEN num_param_handler(o1, value.mem, value.i, nvalue, flags, error0)
                          ELSE string_param_handler(o1, value.mem, value.i, nvalue, flags, error0)
                IN Outcome(h.err, h.error, h.optobj, h.allocs \cup {NameBlock}))
     ELSE LET o1 == [ZeroOpt EXCEPT !.flags = flags]
              ix == find_view_param(option, noption, flags)
          IN IF ix = 0
             THEN Outcome(LCB_EINVAL, "Unrecognized option", o1, {})
             ELSE LET vparam == recognized_view_params[ix]
                      nm == AssignName(o1, vparam, option, noption, flags)
                      h  == CallHandler(vparam.handler, nm.optobj, value.mem,
                                        value.i, nvalue, flags, error0)
                  IN Outcome(h.err, h.error, h.optobj, h.allocs \cup nm.allocs)

\* variant: the lengths are tested as passed, before the sentinel is resolved
lcbex_vopt_assign_rawlen(option, noption0, value, nvalue0, flags, error0) ==
  LET nvalue  == IF nvalue0 = SIZE_MAX THEN strlen(value.mem) ELSE nvalue0
      noption == IF noption0 = SIZE_MAX THEN strlen(option.mem) ELSE noption0
  IN IF LCBEX_VOPT_F_OPTVAL_NUMERIC \notin flags /\ nvalue0 = 0
     THEN Outcome(LCB_EINVAL, "Missing value length", ZeroOpt, {})
     ELSE IF LCBEX_VOPT_F_OPTNAME_NUMERIC \notin flags /\ noption0 = 0
     THEN Outcome(LCB_EINVAL, "Missing option name length", ZeroOpt, {})
     ELSE IF LCBEX_VOPT_F_PASSTHROUGH \in flags
     THEN (IF LCBEX_VOPT_F_OPTNAME_NUMERIC \in flags
           THEN Outcome(LCB_EINVAL,
                        "Can't use passthrough with option constants",
                        ZeroOpt, {})
           ELSE LET o1 == [ZeroOpt EXCEPT
                             !.optname = HeapPtr(NameBlock, my_strndup(option.mem, noption)),
                             !.noptname = noption]
                    h  == IF LCBEX_VOPT_F_OPTVAL_NUMERIC \in flags
                          THEN num_param_handler(o1, value.mem, value.i, nvalue, flags, error0)
                          ELSE string_param_handler(o1, value.mem, value.i, nvalue, flags, error0)
                IN Outcome(h.err, h.error, h.optobj, h.allocs \cup {NameBlock}))
     ELSE LET o1 == [ZeroOpt EXCEPT !.flags = flags]
              ix == find_view_param(option, noption, flags)
          IN IF ix = 0
             THEN Outcome(LCB_EINVAL, "Unrecognized option", o1, {})
             ELSE LET vparam == recognized_view_params[ix]
                      nm == AssignName(o1, vparam, option, noption, flags)
                      h  == CallHandler(vparam.handler, nm.optobj, value.mem,
                                        value.i, nvalue, flags, error0)
                  IN Outcome(h.err, h.error, h.optobj, h.allocs \cup nm.allocs)

lcbex_vopt_assign(option, noption0, value, nvalue0, flags, error0) ==
  LET nvalue  == IF nvalue0 = SIZE_MAX THEN strlen(value.mem) ELSE nvalue0
      noption == IF noption0 = SIZE_MAX THEN strlen(option.mem) ELSE noption0
  IN IF LCBEX_VOPT_F_OPTVAL_NUMERIC \notin flags /\ nvalue = 0
     THEN Outcome(LCB_EINVAL, "Missing value length", ZeroOpt, {})
     ELSE IF LCBEX_VOPT_F_OPTNAME_NUMERIC \notin flags /\ noption = 0
     THEN Outcome(LCB_EINVAL, "Missing option name length", ZeroOpt, {})
     ELSE IF LCBEX_VOPT_F_PASSTHROUGH \in flags
     THEN (IF LCBEX_VOPT_F_OPTNAME_NUMERIC \in flags
           THEN Outcome(LCB_EINVAL,
                        "Can't use passthrough with option constants",
                        ZeroOpt, {})
           ELSE LET o1 == [ZeroOpt EXCEPT
                             !.optname = HeapPtr(NameBlock, my_strndup(option.mem, noption)),
                             !.noptname = noption]
                    h  == IF LCBEX_VOPT_F_OPTVAL_NUMERIC \in flags
                          THEN num_param_handler(o1, value.mem, value.i, nvalue, flags, error0)
                          ELSE string_param_handler(o1, value.mem, value.i, nvalue, flags, error0)
                IN Outcome(h.err, h.error, h.optobj, h.allocs \cup {NameBlock}))
     ELSE LET o1 == [ZeroOpt EXCEPT !.flags = flags]
              ix == find_view_param(option, noption, flags)
          IN IF ix = 0
             THEN Outcome(LCB_EINVAL, "Unrecognized option", o1, {})
             ELSE LET vparam == recognized_view_params[ix]
                      nm == AssignName(o1, vparam, option, noption, flags)
                      h  == CallHandler(vparam.handler, nm.optobj, value.mem,
                                        value.i, nvalue, flags, error0)
                  IN Outcome(h.err, h.error, h.optobj, h.allocs \cup nm.allocs)

\* ------------------------------------------------------------------------
\* lcbex_vopt_cleanup: the pointers it passes to free(), and the record after
\* ------------------------------------------------------------------------
\* variant: the constant flags are not consulted
CleanupFrees_noflags(optobj) ==
  (IF optobj.optname # NullPtr THEN <<optobj.optname>> ELSE << >>)
  \o
  (IF optobj.optval # NullPtr THEN <<optobj.optval>> ELSE << >>)

CleanupFrees(optobj) ==
  (IF optobj.optname # NullPtr /\ LCBEX_VOPT_F_OPTNAME_CONSTANT \notin optobj.flags
   THEN <<optobj.optname>> ELSE << >>)
  \o
  (IF optobj.optval # NullPtr /\ LCBEX_VOPT_F_OPTVAL_CONSTANT \notin optobj.flags
   THEN <<optobj.optval>> ELSE << >>)

\* variant: the record is not zeroed after the buffers are freed
lcbex_vopt_cleanup_nozero(optobj) ==
  [frees |-> CleanupFrees(optobj), optobj |-> optobj]

lcbex_vopt_cleanup(optobj) ==
  [frees |-> CleanupFrees(optobj), optobj |-> ZeroOpt]

\* lcbex_vopt_cleanup_list over a sequence of records (both layouts visit the
\* records in index order)
RECURSIVE lcbex_vopt_cleanup_list_from(_, _)
lcbex_vopt_cleanup_list_from(options, ii) ==
  IF ii > Len(options) THEN [frees |-> << >>, options |-> options]
  ELSE LET c    == lcbex_vopt_cleanup(options[ii])
           rest == lcbex_vopt_cleanup_list_from(
                     [options EXCEPT ![ii] = c.optobj], ii + 1)
       IN [frees |-> c.frees \o rest.frees, options |-> rest.options]

lcbex_vopt_cleanup_list(options) == lcbex_vopt_cleanup_list_from(options, 1)

\* ------------------------------------------------------------------------
\* lcbex_vqstr_calc_len and lcbex_vqstr_write over a sequence of records
\* ------------------------------------------------------------------------
RECURSIVE calc_len_from(_, _)
calc_len_from(options, ii) ==
  IF ii > Len(options) THEN 0
  ELSE options[ii].noptname + options[ii].noptval + 2
       + calc_len_from(options, ii + 1)

\* variant: neither the '?' nor the terminator is counted
lcbex_vqstr_calc_len_bare(options) == calc_len_from(options, 1)

lcbex_vqstr_calc_len(options) == 1 + calc_len_from(options, 1) + 1

\* the bytes the loop of lcbex_vqstr_write appends after the '?'
RECURSIVE write_from(_, _)
write_from(options, ii) ==
  IF ii > Len(options) THEN << >>
  ELSE Take(options[ii].optname.mem, options[ii].noptname) \o <<61>>
       \o Take(options[ii].optval.mem, options[ii].noptval) \o <<38>>
       \o write_from(options, ii + 1)

\* variant: bufp steps back but no terminator is stored
lcbex_vqstr_write_noterm(options) ==
  LET written == <<63>> \o write_from(options, 1)
      ret     == Len(written) - 1
  IN [buf |-> written, ret |-> ret]

\* variant: the terminator is stored without stepping back
lcbex_vqstr_write_nostepback(options) ==
  LET written == <<63>> \o write_from(options, 1)
  IN [buf |-> written \o <<0>>, ret |-> Len(written)]

\* buf after the call (the last written byte, at bufp, is the terminator) and
\* the return value bufp - buf
lcbex_vqstr_write(options) ==
  LET written == <<63>> \o write_from(options, 1)
      ret     == Len(written) - 1
  IN [buf |-> [written EXCEPT ![ret + 1] = 0], ret |-> ret]

\* VoptUnitTests::getKvString: ret.assign(buf + 1, nbuf - 1)
getKvString(vopt) ==
  LET w == lcbex_vqstr_write(<<vopt>>)
  IN SubSeq(w.buf, 2, w.ret)

\* ------------------------------------------------------------------------
\* The arguments a caller passes
\* ------------------------------------------------------------------------
TextArg(mem) == [num |-> FALSE, i |-> 0, mem |-> mem]
IntArg(i)    == [num |-> TRUE,  i |-> i, mem |-> IntBytes(i)]

Min(a, b) == IF a < b THEN a ELSE b

\* a buffer with each explicit length 0..MaxSlice (a slice of a longer string)
Slices(mem) == {<<TextArg(mem), n>> : n \in 0..Min(MaxSlice, Len(mem))}

\* a NUL-terminated string passed with the "compute the length" sentinel
Auto(mem) == <<TextArg(mem), SIZE_MAX>>

\* a string passed with strlen() of it, as the unit tests do
Sized(mem) == <<TextArg(mem), Len(mem)>>

RegistryNames == {recognized_view_params[ix].param :
                    ix \in 1..Len(recognized_view_params)}

NameInputs ==
  {Auto(m) : m \in RegistryNames}
  \cup Slices(S_descending) \cup Slices(S_limit) \cup Slices(S_key)
  \cup {Sized(S_limit), Sized(S_key), Sized(S_stale)}
  \cup {Auto(<<98, 111, 98>>),                     \* "bob"
        Auto(<<76, 105, 109, 105, 116>>),          \* "Limit"
        Auto(<<108, 105, 109, 105, 116, 120>>),    \* "limitx"
        Auto(<<100, 101, 115, 99>>),               \* "desc"
        Auto(<< >>)}                               \* ""

IntVals == (0 - MaxInt)..MaxInt \cup {42, 2147483647}

\* the decimal digits of a natural number, most significant first
RECURSIVE Digits(_)
Digits(n) == IF n < 10 THEN <<n>> ELSE Digits(n \div 10) \o <<n % 10>>

\* the base-10 signed decimal string of an integer
DecimalString(n) ==
  LET ds == Digits(IF n < 0 THEN 0 - n ELSE n)
      body == [k \in 1..Len(ds) |-> 48 + ds[k]]
  IN IF n < 0 THEN <<45>> \o body ELSE body

ValueInputs ==
  {Auto(m) : m \in {S_true, S_false, S_ok, S_update_after, S_stop, S_continue}}
  \cup {Auto(DecimalString(n)) : n \in IntVals}
  \cup Slices(S_true) \cup Slices(<<49, 50, 97>>)  \* "true", "12a"
  \cup {Sized(S_true), Sized(<<97, 0, 98>>)}       \* "true", "a\0b"
  \cup {Auto(<<84, 82, 85, 69>>),                  \* "TRUE"
        Auto(<<84, 114, 117, 101>>),               \* "True"
        Auto(<<70, 97, 76, 115, 69>>),             \* "FaLsE"
        Auto(<<116>>),                             \* "t"
        Auto(<<102, 97, 108>>),                    \* "fal"
        Auto(<<116, 114, 117, 101, 120>>),         \* "truex"
        Auto(<<98, 97, 100, 95, 118, 97, 108, 117, 101>>),  \* "bad_value"
        Auto(<<45>>),                              \* "-"
        Auto(<<97, 98, 99>>),                      \* "abc"
        Auto(<<49, 50, 97>>),                      \* "12a"
        Auto(<<48, 48, 55>>),                      \* "007"
        Auto(<<45, 45, 49>>),                      \* "--1"
        Auto(<<49, 45>>),                          \* "1-"
        Auto(<<79, 75>>),                          \* "OK"
        Auto(<<85, 112, 100, 97, 116, 101, 95, 65, 102, 116, 101, 114>>),  \* "Update_After"
        Auto(<<117, 112>>),                        \* "up"
        Auto(<<83, 116, 111, 112>>),               \* "Stop"
        Auto(<<105, 110, 118, 97, 108, 105, 100>>),  \* "invalid"
        Auto(<<97, 32, 115, 112, 97, 99, 101>>),   \* "a space"
        Auto(<<115>>),                             \* "s"
        Auto(<<99, 111, 110, 116>>),               \* "cont"
        Auto(<<97, 45, 95, 46, 90, 57>>),          \* "a-_.Z9"
        Auto(<<97, 200>>),                         \* "a\xC8"
        Auto(<<10>>),                              \* "\n"
        Auto(<< >>)}                               \* ""

\* an int is passed by address with length 0
OptionInputs(flags) ==
  IF LCBEX_VOPT_F_OPTNAME_NUMERIC \in flags
  THEN {<<IntArg(id), 0>> : id \in (0 - 1)..MaxId}
  ELSE NameInputs

OptvalInputs(flags) ==
  IF LCBEX_VOPT_F_OPTVAL_NUMERIC \in flags
  THEN {<<IntArg(v), 0>> : v \in IntVals}
  ELSE ValueInputs

\* ------------------------------------------------------------------------
\* lcbex_vqstr_make_uri(design, ndesign, view, nview, options, noptions)
\* ------------------------------------------------------------------------
S_design_ == <<95, 100, 101, 115, 105, 103, 110, 47>>   \* "_design/"
S_view_   == <<47, 95, 118, 105, 101, 119, 47>>         \* "/_view/"

\* printf("%.*s", n, mem): at most n bytes, and none from the first NUL on
FmtPrecS(mem, n) == Take(mem, Min(n, strlen(mem)))

\* variant: design and view are printed with "%s"
lcbex_vqstr_make_uri_cstr(design, ndesign0, view, nview0, options) ==
  LET path == S_design_ \o Take(design, strlen(design))
              \o S_view_ \o Take(view, strlen(view))
  IN [needed_len |-> lcbex_vqstr_calc_len(options) + Len(path) + 1,
      buf |-> path \o lcbex_vqstr_write(options).buf]

\* the malloc'ed size and the bytes of the returned buffer written so far:
\* the path, then what lcbex_vqstr_write stores from buf + path_len on (its
\* '?' replaces the terminator snprintf left there)
lcbex_vqstr_make_uri(design, ndesign0, view, nview0, options) ==
  LET ndesign == IF ndesign0 = SIZE_MAX THEN strlen(design) ELSE ndesign0
      nview   == IF nview0 = SIZE_MAX THEN strlen(view) ELSE nview0
      path    == S_design_ \o FmtPrecS(design, ndesign)
                 \o S_view_ \o FmtPrecS(view, nview)
  IN [needed_len |-> lcbex_vqstr_calc_len(options) + Len(path) + 1,
      buf |-> path \o lcbex_vqstr_write(options).buf]

\* ------------------------------------------------------------------------
\* lcbex_vopt_createv(&optarray, &noptions, &errstr, argv..., NULL)
\* argv is the sequence of C strings before the terminating NULL.  A heap
\* block of the batch is <<0, "array">> for *optarray and <<i, b>> for block b
\* of the i-th record.  malloc and realloc are taken to succeed.
\* ------------------------------------------------------------------------
ArrayBlock == <<0, "array">>

\* variant: the record is written at (*optarray) + 0
createv_store_front(r, arr, n_alloc) ==
  [err |-> r.err, errstr |-> r.error, arr |-> <<r.optobj>> \o arr,
   n_alloc |-> IF Len(arr) + 1 > n_alloc THEN n_alloc * 2 ELSE n_alloc,
   allocs |-> {<<Len(arr) + 1, b>> : b \in r.allocs}]

\* one pass of the while loop body once strp and value are both non-NULL,
\* given the outcome r of the lcbex_vopt_assign call of lines 618-622: the
\* array is grown when full (598-606), the count goes up (616) and the
\* record assigned is the one in the new last slot
createv_store(r, arr, n_alloc) ==
  [err |-> r.err, errstr |-> r.error, arr |-> Append(arr, r.optobj),
   n_alloc |-> IF Len(arr) + 1 > n_alloc THEN n_alloc * 2 ELSE n_alloc,
   allocs |-> {<<Len(arr) + 1, b>> : b \in r.allocs}]

\* the while loop from argument pos on; st is the state after the previous
\* pass: the *noptions records in st.arr, the capacity, *errstr, the blocks
RECURSIVE createv_loop(_, _, _)
createv_loop(argv, pos, st) ==
  IF st.err # LCB_SUCCESS \/ pos > Len(argv)
  THEN st
  ELSE IF pos + 1 > Len(argv)
  THEN [st EXCEPT !.err = LCB_EINVAL,
                  !.errstr = "Got odd number of arguments",
                  !.n_alloc = IF Len(st.arr) + 1 > @ THEN @ * 2 ELSE @]
  ELSE createv_loop(argv, pos + 2,
         [createv_store(lcbex_vopt_assign(TextArg(argv[pos]), SIZE_MAX,
                                          TextArg(argv[pos + 1]), SIZE_MAX,
                                          {}, st.errstr),
                        st.arr, st.n_alloc)
          EXCEPT !.allocs = @ \cup st.allocs])

\* the blocks lcbex_vopt_cleanup_list(optarray, *noptions, 1) passes to
\* free(), record by record from index ii on, named as blocks of the batch
RECURSIVE createv_cleanup_frees(_, _)
createv_cleanup_frees(arr, ii) ==
  IF ii > Len(arr) THEN << >>
  ELSE [k \in 1..Len(CleanupFrees(arr[ii])) |->
          <<ii, CleanupFrees(arr[ii])[k].id>>]
       \o createv_cleanup_frees(arr, ii + 1)

\* lines 630-640 on the state lp the loop ended in
createv_finish(lp, frees) ==
  IF Len(lp.arr) # 0 /\ lp.err = LCB_SUCCESS
  THEN [called |-> TRUE, err |-> lp.err, errstr |-> lp.errstr,
        optarray |-> [null |-> FALSE, recs |-> lp.arr],
        noptions |-> Len(lp.arr), n_alloc |-> lp.n_alloc,
        live |-> lp.allocs, frees |-> << >>]
  ELSE [called |-> TRUE,
        err |-> IF Len(lp.arr) = 0 THEN LCB_EINVAL ELSE lp.err,
        errstr |-> IF Len(lp.arr) = 0 THEN "Got no arguments" ELSE lp.errstr,
        optarray |-> [null |-> TRUE, recs |-> << >>],
        noptions |-> Len(lp.arr), n_alloc |-> lp.n_alloc,
        live |-> (lp.allocs \ {frees[ix] : ix \in 1..Len(frees)}) \ {ArrayBlock},
        frees |-> frees \o <<ArrayBlock>>]

\* variant: the records are not cleaned up before the array is released
createv_run_nocleanup(lp) == createv_finish(lp, << >>)

createv_run(lp) == createv_finish(lp, createv_cleanup_frees(lp.arr, 1))

lcbex_vopt_createv(argv) ==
  createv_run(createv_loop(argv, 1,
    [err |-> LCB_SUCCESS, errstr |-> "", arr |-> << >>, n_alloc |-> 8,
     allocs |-> {ArrayBlock}]))

\* ------------------------------------------------------------------------
\* State
\* ------------------------------------------------------------------------
VARIABLES
  pc,        \* "fresh": zeroed, never assigned; "assigned"; "clean": cleaned up
  args,      \* the arguments of the last lcbex_vopt_assign call
  optobj,    \* the caller's lcbex_vopt_t
  ret,       \* [err, error]: return code and *error_string of the last assign
  live,      \* heap blocks the last assign allocated that were not freed yet
  freed,     \* the pointers passed to free() since the last assign, in order
  ncleanup,  \* lcbex_vopt_cleanup calls since the last assign
  argv,      \* the strings a caller has lined up for lcbex_vopt_createv
  batch,     \* what lcbex_vopt_createv handed back, NoBatch before the call
  opts,      \* a caller's list of assigned records
  out        \* what the last lcbex_vqstr call on opts produced, NoOut before

vars == <<pc, args, optobj, ret, live, freed, ncleanup, argv, batch, opts, out>>

NoArgs == [option |-> TextArg(<< >>), noption |-> 0,
           value |-> TextArg(<< >>), nvalue |-> 0, flags |-> {}, called |-> FALSE]

NoBatch == [called |-> FALSE, err |-> LCB_SUCCESS, errstr |-> "unset",
            optarray |-> [null |-> TRUE, recs |-> << >>],
            noptions |-> 0, n_alloc |-> 0, live |-> {}, frees |-> << >>]

NoOut == [kind |-> "none", design |-> << >>, ndesign |-> 0,
          view |-> << >>, nview |-> 0, len |-> 0, buf |-> << >>, ret |-> 0]

Init ==
  /\ pc = "fresh"
  /\ args = NoArgs
  /\ optobj = ZeroOpt
  /\ ret = [err |-> LCB_SUCCESS, error |-> "unset"]
  /\ live = {}
  /\ freed = << >>
  /\ ncleanup = 0
  /\ argv = << >>
  /\ batch = NoBatch
  /\ opts = << >>
  /\ out = NoOut

\* lcbex_vopt_assign(&vopt, option, noption, value, nvalue, flags, &errstr)
Assign ==
  /\ pc = "fresh"
  /\ \E flags \in SUBSET AllFlagBits :
       \E o \in OptionInputs(flags), v \in OptvalInputs(flags) :
         LET r == lcbex_vopt_assign(o[1], o[2], v[1], v[2], flags, "unset")
         IN /\ args' = [option |-> o[1], noption |-> o[2],
                        value |-> v[1], nvalue |-> v[2], flags |-> flags,
                        called |-> TRUE]
            /\ optobj' = r.optobj
            /\ ret' = [err |-> r.err, error |-> r.error]
            /\ live' = r.allocs
  /\ pc' = "assigned"
  /\ freed' = << >>
  /\ ncleanup' = 0
  /\ UNCHANGED <<argv, batch, opts, out>>

\* lcbex_vopt_cleanup(&vopt)
Cleanup ==
  /\ ncleanup < MaxCleanups
  /\ LET c == lcbex_vopt_cleanup(optobj)
     IN /\ optobj' = c.optobj
        /\ freed' = freed \o c.frees
        /\ live' = live \ {c.frees[k].id : k \in 1..Len(c.frees)}
  /\ ncleanup' = ncleanup + 1
  /\ pc' = "clean"
  /\ UNCHANGED <<args, ret, argv, batch, opts, out>>

\* lcbex_vopt_cleanup_list(&p, 1, is_contiguous) with p = &vopt
CleanupList ==
  /\ ncleanup < MaxCleanups
  /\ LET c == lcbex_vopt_cleanup_list(<<optobj>>)
     IN /\ optobj' = c.options[1]
        /\ freed' = freed \o c.frees
        /\ live' = live \ {c.frees[k].id : k \in 1..Len(c.frees)}
  /\ ncleanup' = ncleanup + 1
  /\ pc' = "clean"
  /\ UNCHANGED <<args, ret, argv, batch, opts, out>>

Next == Assign \/ Cleanup \/ CleanupList

Spec == Init /\ [][Next]_vars

\* ------------------------------------------------------------------------
\* Bulk creation: a caller lines up strings and calls lcbex_vopt_createv once
\* ------------------------------------------------------------------------
S_20  == <<50, 48>>
S_bob == <<98, 111, 98>>
S_x   == <<120>>

\* pairs the registry accepts, and pairs whose assignment fails (a name that
\* is not registered, a numeric option with a non-numeric value)
GoodPairs == {<<S_stale, S_false>>, <<S_limit, S_20>>}
BadPairs  == {<<S_bob, S_20>>, <<S_limit, S_x>>}

PairAt(av, i) == <<av[2 * i - 1], av[2 * i]>>
BadCount(av) ==
  Cardinality({i \in 1..(Len(av) \div 2) : PairAt(av, i) \in BadPairs})

\* the caller adds a key and its value; a list holds at most one pair that
\* fails, anywhere in it (the loop stops at the first failure)
PushPair ==
  /\ ~batch.called
  /\ Len(argv) % 2 = 0
  /\ Len(argv) < 2 * MaxPairs
  /\ \E p \in GoodPairs \cup BadPairs :
       /\ p \in BadPairs => BadCount(argv) = 0
       /\ argv' = argv \o p
  /\ UNCHANGED <<pc, args, optobj, ret, live, freed, ncleanup, batch, opts, out>>

\* the caller adds a key and forgets its value
PushLone ==
  /\ ~batch.called
  /\ Len(argv) % 2 = 0
  /\ argv' = Append(argv, S_stale)
  /\ UNCHANGED <<pc, args, optobj, ret, live, freed, ncleanup, batch, opts, out>>

\* lcbex_vopt_createv(&vopt_list, &nvopts, &errstr, argv..., NULL)
Createv ==
  /\ ~batch.called
  /\ batch' = lcbex_vopt_createv(argv)
  /\ UNCHANGED <<pc, args, optobj, ret, live, freed, ncleanup, argv, opts, out>>

NextV == PushPair \/ PushLone \/ Createv

SpecV == Init /\ [][NextV]_vars

\* ------------------------------------------------------------------------
\* Serialization: a caller assigns records one by one into a list and hands
\* the list to lcbex_vqstr_calc_len / lcbex_vqstr_write or to
\* lcbex_vqstr_make_uri
\* ------------------------------------------------------------------------
S_a_space == <<97, 32, 115, 112, 97, 99, 101>>   \* "a space"
S_ddoc    == <<100, 100, 111, 99>>
S_vdoc    == <<118, 100, 111, 99>>

\* <<option, noption, value, nvalue, flags>> of the assignments a list is
\* built from; each of them succeeds
ListInputs ==
  { <<TextArg(S_stale), SIZE_MAX, TextArg(S_false), SIZE_MAX, {}>>,
    <<TextArg(S_startkey_docid), SIZE_MAX, TextArg(S_a_space), SIZE_MAX,
      {LCBEX_VOPT_F_PCTENCODE}>>,
    <<IntArg(14), 0, IntArg(20), 0,
      {LCBEX_VOPT_F_OPTNAME_NUMERIC, LCBEX_VOPT_F_OPTVAL_NUMERIC}>>,
    <<TextArg(S_bob), SIZE_MAX, TextArg(S_a_space), SIZE_MAX,
      {LCBEX_VOPT_F_PASSTHROUGH}>>,
    <<TextArg(S_key), SIZE_MAX, TextArg(<<97, 0, 98>>), 3, {}>>,
    <<TextArg(S_stale), SIZE_MAX, TextArg(S_ok), SIZE_MAX,
      {LCBEX_VOPT_F_OPTNAME_CONSTANT, LCBEX_VOPT_F_OPTVAL_CONSTANT}>> }

\* design and view names: NUL-terminated with the sentinel length, or the
\* first bytes of a longer buffer with an explicit length
DesignInputs == {<<S_ddoc, SIZE_MAX>>, <<S_ddoc, 2>>, <<S_a_space, 7>>}
ViewInputs   == {<<S_vdoc, SIZE_MAX>>, <<S_vdoc, 1>>}

\* lcbex_vopt_assign(&vopt, ...) succeeded and the caller puts vopt last in
\* the list
AddOption ==
  /\ out.kind = "none"
  /\ Len(opts) < MaxOpts
  /\ \E q \in ListInputs :
       LET r == lcbex_vopt_assign(q[1], q[2], q[3], q[4], q[5], "unset")
       IN /\ r.err = LCB_SUCCESS
          /\ opts' = Append(opts, r.optobj)
  /\ UNCHANGED <<pc, args, optobj, ret, live, freed, ncleanup, argv, batch, out>>

\* needed_len = lcbex_vqstr_calc_len(list, n); buf = new char[...];
\* nbuf = lcbex_vqstr_write(list, n, buf)
Serialize ==
  /\ out.kind = "none"
  /\ out' = [NoOut EXCEPT !.kind = "write",
                          !.len = lcbex_vqstr_calc_len(opts),
                          !.buf = lcbex_vqstr_write(opts).buf,
                          !.ret = lcbex_vqstr_write(opts).ret]
  /\ UNCHANGED <<pc, args, optobj, ret, live, freed, ncleanup, argv, batch, opts>>

\* uri = lcbex_vqstr_make_uri(design, ndesign, view, nview, list, n)
MakeUri ==
  /\ out.kind = "none"
  /\ \E d \in DesignInputs, v \in ViewInputs :
       out' = [NoOut EXCEPT
                 !.kind = "uri",
                 !.design = d[1], !.ndesign = d[2],
                 !.view = v[1], !.nview = v[2],
                 !.len = lcbex_vqstr_make_uri(d[1], d[2], v[1], v[2], opts).needed_len,
                 !.buf = lcbex_vqstr_make_uri(d[1], d[2], v[1], v[2], opts).buf]
  /\ UNCHANGED <<pc, args, optobj, ret, live, freed, ncleanup, argv, batch, opts>>

NextQ == AddOption \/ Serialize \/ MakeUri

SpecQ == Init /\ [][NextQ]_vars

\* ------------------------------------------------------------------------
\* Vocabulary of the properties
\* ------------------------------------------------------------------------
\* the lengths the last call's arguments really have
EffNoption == IF args.noption = SIZE_MAX THEN strlen(args.option.mem)
              ELSE args.noption
EffNvalue  == IF args.nvalue = SIZE_MAX THEN strlen(args.value.mem)
              ELSE args.nvalue

\* the name and the value the caller passed, as byte strings
GivenName  == Take(args.option.mem, EffNoption)
GivenValue == Take(args.value.mem, EffNvalue)

NameIsText  == LCBEX_VOPT_F_OPTNAME_NUMERIC \notin args.flags
ValueIsText == LCBEX_VOPT_F_OPTVAL_NUMERIC \notin args.flags
Passthrough == LCBEX_VOPT_F_PASSTHROUGH \in args.flags

\* the record right after lcbex_vopt_assign returned
AfterAssign == pc = "assigned"
\* at least one cleanup ran after an lcbex_vopt_assign
AfterCleanup == args.called /\ pc = "clean"

Failed    == ret.err # LCB_SUCCESS
Succeeded == ret.err = LCB_SUCCESS

\* the 17 option names of LCBEX_XVOPT with their ids and types
OptionTable ==
  { <<1, S_descending, "bool">>,      <<2, S_endkey, "jval">>,
    <<3, S_endkey_docid, "string">>,  <<4, S_full_set, "bool">>,
    <<5, S_group, "bool">>,           <<6, S_group_level, "num">>,
    <<7, S_inclusive_end, "bool">>,   <<8, S_keys, "jarry">>,
    <<9, S_key, "jval">>,             <<10, S_on_error, "onerror">>,
    <<11, S_reduce, "bool">>,         <<12, S_stale, "stale">>,
    <<13, S_skip, "num">>,            <<14, S_limit, "num">>,
    <<15, S_startkey, "jval">>,       <<16, S_startkey_docid, "string">>,
    <<17, S_debug, "bool">> }

\* the last call addressed option e of the table: by its id, or by exactly
\* its name
Addresses(e) ==
  /\ args.called /\ ~Passthrough
  /\ IF NameIsText THEN GivenName = e[2] ELSE args.option.i = e[1]

\* the last call addressed an option of type t, with a value that is present
AddressedType(t) == \E e \in OptionTable : e[3] = t /\ Addresses(e)

\* the name of the option the last call addressed
AddressedName == (CHOOSE e \in OptionTable : Addresses(e))[2]

Lower(c) == IF c \in 65..90 THEN c + 32 ELSE c

\* s and t are the same string up to the case of letters
SameIgnoringCase(s, t) ==
  /\ Len(s) = Len(t)
  /\ \A k \in 1..Len(s) : Lower(s[k]) = Lower(t[k])

\* name=value
Kv(name, value) == name \o <<61>> \o value

\* ------------------------------------------------------------------------
\* C1: without the passthrough flag and with a string option name, a
\* non-empty name that is not exactly one of the 17 registered names is
\* rejected with LCB_EINVAL "Unrecognized option" (the value being present).
\* ------------------------------------------------------------------------
C1_OnlyRegisteredNames ==
  (/\ AfterAssign /\ ~Passthrough /\ NameIsText
   /\ EffNoption > 0
   /\ (ValueIsText => EffNvalue > 0)
   /\ GivenName \notin {e[2] : e \in OptionTable})
  => (ret.err = LCB_EINVAL /\ ret.error = "Unrecognized option")

\* ------------------------------------------------------------------------
\* C2: after an lcbex_vopt_assign and one lcbex_vopt_cleanup of the record,
\* every buffer the assign allocated has been released.
\* ------------------------------------------------------------------------
C2_CleanupReleasesAll ==
  (AfterCleanup /\ ncleanup >= 1) => live = {}

\* ------------------------------------------------------------------------
\* C3: lcbex_vopt_cleanup and lcbex_vopt_cleanup_list pass to free() only
\* memory the library allocated: never a caller buffer, a registry name or a
\* static literal.
\* ------------------------------------------------------------------------
C3_FreesOnlyHeap ==
  \A k \in 1..Len(freed) : freed[k].k = "heap"

\* a record whose name and value were both borrowed (caller's name, or the
\* registry's, with a caller's or a literal value) has been cleaned up
C3_Witness ==
  /\ AfterCleanup /\ Succeeded
  /\ LCBEX_VOPT_F_OPTNAME_CONSTANT \in args.flags
  /\ LCBEX_VOPT_F_OPTVAL_CONSTANT \in args.flags
  /\ LCBEX_VOPT_F_PCTENCODE \notin args.flags
  /\ AddressedType("string")
  /\ freed = << >>

\* ------------------------------------------------------------------------
\* C4: whenever lcbex_vopt_assign returns an error the record is
\* empty: neither name nor value is set and it holds no allocation.
\* ------------------------------------------------------------------------
C4_FailedLeavesEmpty ==
  (AfterAssign /\ Failed)
  => (optobj.optname = NullPtr /\ optobj.optval = NullPtr /\ live = {})

\* ------------------------------------------------------------------------
\* C5: lcbex_vopt_cleanup is idempotent: no buffer is released twice, and
\* every cleanup after the first finds an all-zero record and changes
\* nothing.
\* ------------------------------------------------------------------------
NoDoubleFree ==
  \A j, k \in 1..Len(freed) : (j # k) => freed[j] # freed[k]

C5_CleanupIdempotent ==
  [][ (ncleanup >= 1 /\ ncleanup' = ncleanup + 1)
      => (/\ optobj = ZeroOpt /\ optobj' = ZeroOpt
          /\ freed' = freed /\ live' = live
          /\ NoDoubleFree') ]_vars

\* a record that owned its name and its value has been cleaned up twice
C5_Witness ==
  /\ AfterCleanup /\ ncleanup = 2
  /\ Len(freed) = 2

\* ------------------------------------------------------------------------
\* C6: for every boolean-typed option, addressed by name or by id, numeric 1
\* and any case variant of "true" serialize as <name>=true, numeric 0 and
\* any case variant of "false" as <name>=false.
\* ------------------------------------------------------------------------
MeansTrue  == IF ValueIsText THEN SameIgnoringCase(GivenValue, S_true)
              ELSE args.value.i = 1
MeansFalse == IF ValueIsText THEN SameIgnoringCase(GivenValue, S_false)
              ELSE args.value.i = 0

C6_BooleanSerialization ==
  (AfterAssign /\ AddressedType("bool"))
  => /\ MeansTrue  => (Succeeded /\ getKvString(optobj) = Kv(AddressedName, S_true))
     /\ MeansFalse => (Succeeded /\ getKvString(optobj) = Kv(AddressedName, S_false))

\* a boolean option addressed by id was given "TRUE"
C6_Witness ==
  /\ AfterAssign /\ AddressedType("bool") /\ ~NameIsText /\ ValueIsText
  /\ GivenValue = <<84, 82, 85, 69>>
  /\ getKvString(optobj) = Kv(AddressedName, S_true)

\* ------------------------------------------------------------------------
\* C7: for every boolean-typed option, a non-empty string value that is not
\* "true" or "false" (in any case, over its full length) is rejected with
\* LCB_EINVAL.
\* ------------------------------------------------------------------------
C7_BadBooleanRejected ==
  (/\ AfterAssign /\ AddressedType("bool") /\ ValueIsText /\ EffNvalue > 0
   /\ ~SameIgnoringCase(GivenValue, S_true)
   /\ ~SameIgnoringCase(GivenValue, S_false))
  => ret.err = LCB_EINVAL

\* ------------------------------------------------------------------------
\* C8: for every numeric-typed option, addressed by name or by id, assigning
\* the integer n and assigning the decimal string of n both succeed and
\* serialize as the same <name>=<n>.
\* ------------------------------------------------------------------------
\* the same call with the decimal string of n in place of the int n
AssignDecimalOf(n) ==
  lcbex_vopt_assign(args.option, args.noption, TextArg(DecimalString(n)),
                    SIZE_MAX, args.flags \ {LCBEX_VOPT_F_OPTVAL_NUMERIC},
                    "unset")

C8_NumericSameAsDecimal ==
  (AfterAssign /\ AddressedType("num") /\ ~ValueIsText)
  => /\ Succeeded
     /\ getKvString(optobj) = Kv(AddressedName, DecimalString(args.value.i))
     /\ AssignDecimalOf(args.value.i).err = LCB_SUCCESS
     /\ getKvString(AssignDecimalOf(args.value.i).optobj) = getKvString(optobj)

\* a numeric option was given a negative int
C8_Witness ==
  /\ AfterAssign /\ AddressedType("num") /\ ~ValueIsText
  /\ args.value.i < 0
  /\ Succeeded

\* ------------------------------------------------------------------------
\* C9: for a numeric-typed option given a non-empty string, the value is
\* accepted if and only if it is an optional '-' followed by one or more
\* decimal digits and nothing else; otherwise LCB_EINVAL; an accepted string
\* is stored verbatim.
\* ------------------------------------------------------------------------
IsSignedDecimal(s) ==
  LET body == IF Len(s) > 0 /\ s[1] = 45 THEN Tail(s) ELSE s
  IN /\ Len(body) >= 1
     /\ \A k \in 1..Len(body) : body[k] \in 48..57

C9_NumericStringValidation ==
  (AfterAssign /\ AddressedType("num") /\ ValueIsText /\ EffNvalue > 0)
  => /\ Succeeded <=> IsSignedDecimal(GivenValue)
     /\ Failed => ret.err = LCB_EINVAL
     /\ Succeeded => Take(optobj.optval.mem, optobj.noptval) = GivenValue

\* ------------------------------------------------------------------------
\* C10: for the stale option, by name or id: "false" gives stale=false,
\* "ok" gives stale=ok, "update_after" gives stale=update_after, "true"
\* gives stale=ok, numeric 1 gives stale=ok and numeric 0 gives stale=false.
\* ------------------------------------------------------------------------
StaleStrings == { <<S_false, S_false>>, <<S_ok, S_ok>>,
                  <<S_update_after, S_update_after>>, <<S_true, S_ok>> }
StaleInts == { <<1, S_ok>>, <<0, S_false>> }

C10_StaleMapping ==
  (AfterAssign /\ Addresses(<<12, S_stale, "stale">>))
  => /\ ValueIsText =>
          \A c \in StaleStrings :
             (GivenValue = c[1])
             => (Succeeded /\ getKvString(optobj) = Kv(S_stale, c[2]))
     /\ ~ValueIsText =>
          \A c \in StaleInts :
             (args.value.i = c[1])
             => (Succeeded /\ getKvString(optobj) = Kv(S_stale, c[2]))

\* stale, addressed by id, was given the string "true"
C10_Witness ==
  /\ AfterAssign /\ Addresses(<<12, S_stale, "stale">>)
  /\ ~NameIsText /\ ValueIsText /\ GivenValue = S_true
  /\ getKvString(optobj) = Kv(S_stale, S_ok)

\* ------------------------------------------------------------------------
\* C11: for the stale option, a non-empty string value that is not "true",
\* "false", "ok" or "update_after" (in any case, over its full length) is
\* rejected with LCB_EINVAL.
\* ------------------------------------------------------------------------
C11_BadStaleRejected ==
  (/\ AfterAssign /\ Addresses(<<12, S_stale, "stale">>)
   /\ ValueIsText /\ EffNvalue > 0
   /\ \A w \in {S_true, S_false, S_ok, S_update_after} :
        ~SameIgnoringCase(GivenValue, w))
  => ret.err = LCB_EINVAL

\* ------------------------------------------------------------------------
\* C12: for the on_error option given a non-empty string, the value is
\* accepted if and only if it is "stop" or "continue" in any case over its
\* full length, the stored value then being the lowercase word; every other
\* string returns LCB_EINVAL.
\* ------------------------------------------------------------------------
C12_OnErrorStrings ==
  (/\ AfterAssign /\ Addresses(<<10, S_on_error, "onerror">>)
   /\ ValueIsText /\ EffNvalue > 0)
  => /\ Succeeded <=> \E w \in {S_stop, S_continue} :
                         SameIgnoringCase(GivenValue, w)
     /\ Failed => ret.err = LCB_EINVAL
     /\ Succeeded =>
          \E w \in {S_stop, S_continue} :
             /\ SameIgnoringCase(GivenValue, w)
             /\ Take(optobj.optval.mem, optobj.noptval) = w

\* ------------------------------------------------------------------------
\* C13: for the on_error option, a value passed with the numeric-value flag
\* (an int, value length 0) is rejected with LCB_EINVAL.
\* ------------------------------------------------------------------------
C13_OnErrorRejectsNumeric ==
  (/\ AfterAssign /\ Addresses(<<10, S_on_error, "onerror">>)
   /\ ~ValueIsText /\ args.nvalue = 0)
  => ret.err = LCB_EINVAL

\* ------------------------------------------------------------------------
\* C14: for every string-typed option (string, jval, jarry), a value passed
\* with the numeric-value flag is rejected with LCB_EINVAL.
\* ------------------------------------------------------------------------
StringTyped ==
  AddressedType("string") \/ AddressedType("jval") \/ AddressedType("jarry")

C14_StringRejectsNumeric ==
  (AfterAssign /\ StringTyped /\ ~ValueIsText) => ret.err = LCB_EINVAL

\* a string-typed option addressed by id was given an int
C14_Witness ==
  /\ AfterAssign /\ AddressedType("jarry") /\ ~NameIsText /\ ~ValueIsText
  /\ ret.error = "Option requires a string value"

\* ------------------------------------------------------------------------
\* C15: for every string-typed option and every non-empty byte string value,
\* without the percent-encode flag the assignment succeeds and the stored
\* value is byte for byte the input, with the same length.
\* ------------------------------------------------------------------------
StoredValue == Take(optobj.optval.mem, optobj.noptval)
StoredName  == Take(optobj.optname.mem, optobj.noptname)

C15_StringStoredVerbatim ==
  (/\ AfterAssign /\ StringTyped /\ ValueIsText /\ EffNvalue > 0
   /\ LCBEX_VOPT_F_PCTENCODE \notin args.flags)
  => /\ Succeeded
     /\ optobj.noptval = EffNvalue
     /\ StoredValue = GivenValue

\* ------------------------------------------------------------------------
\* C16: for every string-typed option and every non-empty byte string value
\* assigned with the percent-encode flag, the stored value is the reference
\* encoding of the input: unreserved bytes ([A-Za-z0-9], '-', '_', '.') are
\* copied, every other byte b becomes '%' and two uppercase hex digits; the
\* stored length is len + 2 * (escaped bytes), and the value is the input
\* when nothing needs escaping.
\* ------------------------------------------------------------------------
Unreserved(b) == b \in (48..57) \cup (65..90) \cup (97..122) \cup {45, 95, 46}

UpperHex == <<48, 49, 50, 51, 52, 53, 54, 55, 56, 57, 65, 66, 67, 68, 69, 70>>

RECURSIVE RefEncode(_)
RefEncode(str) ==
  IF str = << >> THEN << >>
  ELSE (IF Unreserved(Head(str)) THEN <<Head(str)>>
        ELSE <<37, UpperHex[(Head(str) \div 16) + 1], UpperHex[(Head(str) % 16) + 1]>>)
       \o RefEncode(Tail(str))

EscapedCount(str) == Cardinality({k \in 1..Len(str) : ~Unreserved(str[k])})

C16_PercentEncoding ==
  (/\ AfterAssign /\ StringTyped /\ ValueIsText /\ EffNvalue > 0
   /\ LCBEX_VOPT_F_PCTENCODE \in args.flags)
  => /\ Succeeded
     /\ StoredValue = RefEncode(GivenValue)
     /\ optobj.noptval = EffNvalue + 2 * EscapedCount(GivenValue)
     /\ (EscapedCount(GivenValue) = 0) => (StoredValue = GivenValue)

\* a value with a byte above 127 was stored percent-encoded
C16_Witness ==
  /\ AfterAssign /\ StringTyped /\ ValueIsText
  /\ LCBEX_VOPT_F_PCTENCODE \in args.flags
  /\ GivenValue = <<97, 200>>
  /\ StoredValue = <<97, 37, 67, 56>>

\* ------------------------------------------------------------------------
\* C17: with the passthrough flag and a non-empty string name,
\* lcbex_vopt_assign succeeds for any name and any non-empty string value,
\* and (percent-encoding not being requested) name and value are serialized
\* verbatim, whatever the registered type of the name.
\* ------------------------------------------------------------------------
C17_PassthroughVerbatim ==
  (/\ AfterAssign /\ Passthrough /\ NameIsText /\ EffNoption > 0
   /\ ValueIsText /\ EffNvalue > 0
   /\ LCBEX_VOPT_F_PCTENCODE \notin args.flags)
  => /\ Succeeded
     /\ getKvString(optobj) = Kv(GivenName, GivenValue)

\* ------------------------------------------------------------------------
\* C18: lcbex_vopt_assign with both the passthrough flag and the
\* numeric-option-name flag returns LCB_EINVAL for every id and value, and
\* allocates nothing.
\* ------------------------------------------------------------------------
C18_PassthroughNumericName ==
  (AfterAssign /\ Passthrough /\ ~NameIsText)
  => (ret.err = LCB_EINVAL /\ live = {} /\ optobj = ZeroOpt)

\* a registered id was passed with the passthrough flag and a usable value
C18_Witness ==
  /\ AfterAssign /\ Passthrough /\ ~NameIsText
  /\ args.option.i = 14 /\ ValueIsText /\ EffNvalue > 0
  /\ ret.error = "Can't use passthrough with option constants"

\* ------------------------------------------------------------------------
\* C19: lcbex_vopt_assign returns LCB_EINVAL and leaves the record all-zero
\* whenever the name has effective length 0 without the numeric-name flag,
\* or the value has effective length 0 without the numeric-value flag; with
\* or without passthrough, for an explicit 0 and for the sentinel on "".
\* ------------------------------------------------------------------------
C19_ZeroLengthRejected ==
  (/\ AfterAssign
   /\ \/ (NameIsText /\ EffNoption = 0)
      \/ (ValueIsText /\ EffNvalue = 0))
  => (ret.err = LCB_EINVAL /\ optobj = ZeroOpt /\ live = {})

\* the empty name was passed with the sentinel length and passthrough
C19_Witness ==
  /\ AfterAssign /\ Passthrough /\ NameIsText
  /\ args.noption = SIZE_MAX /\ EffNoption = 0 /\ EffNvalue > 0
  /\ ret.error = "Missing option name length"

\* ------------------------------------------------------------------------
\* C20: lcbex_vopt_createv given k >= 1 valid key/value string pairs returns
\* LCB_SUCCESS with *noptions = k and an array whose i-th record holds the
\* i-th pair, for k below and above the initial capacity 8; serializing the
\* records in array order yields "?k1=v1&k2=v2..." in argument order.
\* ------------------------------------------------------------------------
AllValid ==
  /\ Len(argv) % 2 = 0 /\ Len(argv) >= 2
  /\ \A i \in 1..(Len(argv) \div 2) : PairAt(argv, i) \in GoodPairs

RECURSIVE JoinPairs(_, _)
JoinPairs(av, i) ==
  IF i > Len(av) \div 2 THEN << >>
  ELSE (IF i > 1 THEN <<38>> ELSE << >>) \o Kv(av[2 * i - 1], av[2 * i])
       \o JoinPairs(av, i + 1)

C20_CreatevValidPairs ==
  (batch.called /\ AllValid)
  => /\ batch.err = LCB_SUCCESS
     /\ ~batch.optarray.null
     /\ batch.noptions = Len(argv) \div 2
     /\ Len(batch.optarray.recs) = batch.noptions
     /\ batch.n_alloc >= batch.noptions
     /\ \A i \in 1..batch.noptions :
          getKvString(batch.optarray.recs[i]) = Kv(argv[2 * i - 1], argv[2 * i])
     /\ LET w == lcbex_vqstr_write(batch.optarray.recs)
        IN /\ SubSeq(w.buf, 1, w.ret) = <<63>> \o JoinPairs(argv, 1)
           /\ w.buf[w.ret + 1] = 0

\* nine pairs, not all alike, were created: the array was grown once
C20_Witness ==
  /\ batch.called /\ AllValid
  /\ batch.noptions = 9 /\ batch.n_alloc = 16
  /\ PairAt(argv, 1) # PairAt(argv, 9)
  /\ batch.err = LCB_SUCCESS

\* fewer pairs than the initial capacity were created
C20_WitnessSmall ==
  /\ batch.called /\ AllValid
  /\ batch.noptions = 4 /\ batch.n_alloc = 8
  /\ batch.err = LCB_SUCCESS

\* ------------------------------------------------------------------------
\* C21: lcbex_vopt_createv is all-or-nothing: for an empty list, a list with
\* an odd number of strings or a list holding a pair whose assignment fails,
\* it returns LCB_EINVAL, the output array pointer is NULL, every block of
\* the batch (the records' buffers and the array) was passed to free()
\* exactly once, and no block of the batch remains live.
\* ------------------------------------------------------------------------
BadList ==
  \/ Len(argv) = 0
  \/ Len(argv) % 2 = 1
  \/ BadCount(argv) > 0

C21_CreatevAllOrNothing ==
  (batch.called /\ BadList)
  => /\ batch.err = LCB_EINVAL
     /\ batch.optarray.null /\ batch.optarray.recs = << >>
     /\ batch.live = {}
     /\ \A i, j \in 1..Len(batch.frees) :
          batch.frees[i] = batch.frees[j] => i = j
     /\ batch.frees[Len(batch.frees)] = ArrayBlock

\* a failing pair came after pairs that had allocated names and a value, and
\* all those blocks were released
C21_Witness ==
  /\ batch.called
  /\ Len(argv) >= 6
  /\ PairAt(argv, 1) = <<S_limit, S_20>>
  /\ PairAt(argv, 2) = <<S_stale, S_false>>
  /\ PairAt(argv, 3) = <<S_limit, S_x>>
  /\ batch.err = LCB_EINVAL /\ batch.live = {}
  /\ batch.frees = << <<1, NameBlock>>, <<1, ValueBlock>>, <<2, NameBlock>>,
                      <<3, NameBlock>>, ArrayBlock >>

\* ------------------------------------------------------------------------
\* C26: lcbex_vopt_createv called with an odd number of strings returns
\* LCB_EINVAL with the error string "Got odd number of arguments" (when no
\* earlier pair failed), and called with no strings returns LCB_EINVAL with
\* "Got no arguments".
\* ------------------------------------------------------------------------
C26_OddAndEmptyMessages ==
  batch.called
  => /\ (Len(argv) % 2 = 1 /\ BadCount(argv) = 0)
          => (batch.err = LCB_EINVAL
              /\ batch.errstr = "Got odd number of arguments")
     /\ Len(argv) = 0
          => (batch.err = LCB_EINVAL /\ batch.errstr = "Got no arguments")

\* ------------------------------------------------------------------------
\* C22: for every list of n >= 0 records, the length lcbex_vqstr_write
\* returns is at most lcbex_vqstr_calc_len of the list minus one, and the
\* bytes it stores, terminator included, fit a buffer of calc_len bytes.
\* ------------------------------------------------------------------------
C22_WriteFitsCalcLen ==
  (out.kind = "write")
  => /\ out.ret <= out.len - 1
     /\ Len(out.buf) <= out.len

\* a full list was sized and written
C22_Witness ==
  /\ out.kind = "write" /\ Len(opts) = MaxOpts
  /\ out.ret = out.len - 2 /\ Len(out.buf) = out.ret + 1

\* ------------------------------------------------------------------------
\* C23: for every list of n >= 1 records, lcbex_vqstr_write produces '?'
\* followed by name_i '=' value_i for i = 1..n in list order, joined by one
\* '&', with no trailing '&', NUL-terminated, and returns the length without
\* the terminator; records with equal names are all emitted.
\* ------------------------------------------------------------------------
RecName(rec)  == Take(rec.optname.mem, rec.noptname)
RecValue(rec) == Take(rec.optval.mem, rec.noptval)

RECURSIVE JoinRecs(_, _)
JoinRecs(recs, i) ==
  IF i > Len(recs) THEN << >>
  ELSE (IF i > 1 THEN <<38>> ELSE << >>)
       \o Kv(RecName(recs[i]), RecValue(recs[i]))
       \o JoinRecs(recs, i + 1)

C23_WriteFormat ==
  (out.kind = "write" /\ Len(opts) >= 1)
  => /\ out.buf = <<63>> \o JoinRecs(opts, 1) \o <<0>>
     /\ out.ret = Len(out.buf) - 1

\* two records named "stale" around a percent-encoded one were written
C23_Witness ==
  /\ out.kind = "write" /\ Len(opts) = 3
  /\ RecName(opts[1]) = S_stale /\ RecName(opts[3]) = S_stale
  /\ out.buf = <<63, 115, 116, 97, 108, 101, 61, 102, 97, 108, 115, 101, 38, 115, 116, 97, 114, 116, 107, 101, 121, 95, 100, 111, 99, 105, 100, 61, 97, 37, 50, 48, 115, 112, 97, 99, 101, 38, 115, 116, 97, 108, 101, 61, 111, 107, 0>>

\* ------------------------------------------------------------------------
\* C24: lcbex_vqstr_make_uri(design, view, options) returns "_design/" +
\* design + "/_view/" + view followed by exactly what lcbex_vqstr_write
\* produces for the same options, NUL-terminated and within the allocated
\* size; design and view are the caller's names, NUL-terminated or the first
\* ndesign / nview bytes of a buffer.
\* ------------------------------------------------------------------------
GivenDesign ==
  SubSeq(out.design, 1,
         IF out.ndesign = SIZE_MAX THEN Len(out.design) ELSE out.ndesign)
GivenView ==
  SubSeq(out.view, 1, IF out.nview = SIZE_MAX THEN Len(out.view) ELSE out.nview)

C24_MakeUri ==
  (out.kind = "uri")
  => /\ out.buf = <<95, 100, 101, 115, 105, 103, 110, 47>> \o GivenDesign
                  \o <<47, 95, 118, 105, 101, 119, 47>> \o GivenView
                  \o lcbex_vqstr_write(opts).buf
     /\ out.buf[Len(out.buf)] = 0
     /\ Len(out.buf) <= out.len

\* the unit test's URI: stale=false and an encoded startkey_docid
C24_Witness ==
  /\ out.kind = "uri" /\ Len(opts) = 2
  /\ out.ndesign = SIZE_MAX /\ out.nview = SIZE_MAX
  /\ out.buf = <<95, 100, 101, 115, 105, 103, 110, 47, 100, 100, 111, 99, 47, 95, 118, 105, 101, 119, 47, 118, 100, 111, 99, 63, 115, 116, 97, 108, 101, 61, 102, 97, 108, 115, 101, 38, 115, 116, 97, 114, 116, 107, 101, 121, 95, 100, 111, 99, 105, 100, 61, 97, 37, 50, 48, 115, 112, 97, 99, 101, 0>>

\* ------------------------------------------------------------------------
\* C27: for an empty list lcbex_vqstr_write stores the terminator over the
\* leading '?', returns 0 and touches only buf[0]; lcbex_vqstr_make_uri with
\* no options returns just "_design/<design>/_view/<view>", without a '?'.
\* ------------------------------------------------------------------------
C27_EmptyList ==
  (opts = << >>)
  => /\ (out.kind = "write") => (out.ret = 0 /\ out.buf = <<0>>)
     /\ (out.kind = "uri") =>
          /\ out.buf = <<95, 100, 101, 115, 105, 103, 110, 47>> \o GivenDesign
                       \o <<47, 95, 118, 105, 101, 119, 47>> \o GivenView
                       \o <<0>>
          /\ \A k \in 1..Len(out.buf) : out.buf[k] # 63

\* a URI was made for no options from slices of the two names
C27_Witness ==
  /\ opts = << >> /\ out.kind = "uri"
  /\ out.ndesign = 2 /\ out.nview = 1
  /\ out.buf = <<95, 100, 101, 115, 105, 103, 110, 47, 100, 100, 47, 95, 118, 105, 101, 119, 47, 118, 0>>

\* ------------------------------------------------------------------------
\* C25: after a successful lcbex_vopt_assign the name and its ownership
\* follow the resolution path: by numeric id, the registry's name for that
\* id, borrowed (name-constant flag set); by string name with the
\* name-constant flag, the caller's pointer, borrowed; by string name without
\* the flag, an owned copy; with passthrough, an owned copy even when the
\* caller passed the name-constant flag.
\* ------------------------------------------------------------------------
NameOwned ==
  /\ optobj.optname.k = "heap" /\ optobj.optname.id = NameBlock
  /\ NameBlock \in live
  /\ LCBEX_VOPT_F_OPTNAME_CONSTANT \notin optobj.flags
  /\ StoredName = GivenName

NameBorrowed ==
  /\ optobj.optname.k # "heap"
  /\ NameBlock \notin live
  /\ LCBEX_VOPT_F_OPTNAME_CONSTANT \in optobj.flags

C25_NameOwnership ==
  (AfterAssign /\ Succeeded)
  => /\ (~Passthrough /\ ~NameIsText)
          => /\ NameBorrowed /\ optobj.optname.k = "registry"
             /\ \E e \in OptionTable :
                  e[1] = args.option.i /\ StoredName = e[2]
     /\ (~Passthrough /\ NameIsText
           /\ LCBEX_VOPT_F_OPTNAME_CONSTANT \in args.flags)
          => /\ NameBorrowed /\ optobj.optname.k = "caller"
             /\ optobj.optname.mem = args.option.mem
             /\ optobj.noptname = EffNoption
     /\ (~Passthrough /\ NameIsText
           /\ LCBEX_VOPT_F_OPTNAME_CONSTANT \notin args.flags)
          => NameOwned
     /\ Passthrough => NameOwned

\* passthrough was given the name-constant flag and still copied the name
C25_Witness ==
  /\ AfterAssign /\ Succeeded /\ Passthrough
  /\ LCBEX_VOPT_F_OPTNAME_CONSTANT \in args.flags
  /\ NameOwned /\ EffNoption > 0

\* ------------------------------------------------------------------------
\* C28: a boolean-typed option, and "stale", given a value with the
\* numeric-value flag never fails: 0 gives "false", every other integer
\* gives "true" ("ok" for stale).
\* ------------------------------------------------------------------------
C28_NumericTruthiness ==
  (/\ AfterAssign /\ ~ValueIsText
   /\ (AddressedType("bool") \/ AddressedType("stale")))
  => /\ Succeeded
     /\ StoredValue = (IF args.value.i = 0 THEN S_false
                       ELSE IF AddressedType("bool") THEN S_true ELSE S_ok)

\* a boolean option was given an integer other than 0 and 1
C28_Witness ==
  /\ AfterAssign /\ ~ValueIsText /\ AddressedType("bool")
  /\ args.value.i < 0
  /\ Succeeded /\ StoredValue = S_true

\* ------------------------------------------------------------------------
\* C29: lookup by numeric id matches exactly the ids 1..17, each to its own
\* registry entry; id 0 and every id outside 1..17 match nothing, and a
\* non-passthrough assign with such an id (and a value that passes the
\* length check) returns LCB_EINVAL "Unrecognized option" with no name and
\* no value set.
\* ------------------------------------------------------------------------
C29_NumericIdLookup ==
  (/\ AfterAssign /\ ~Passthrough /\ ~NameIsText
   /\ (ValueIsText => EffNvalue > 0))
  => IF args.option.i \in 1..17
     THEN /\ ret.error # "Unrecognized option"
          /\ \E e \in OptionTable :
               /\ e[1] = args.option.i
               /\ optobj.optname.k = "registry"
               /\ StoredName = e[2]
     ELSE /\ ret.err = LCB_EINVAL
          /\ ret.error = "Unrecognized option"
          /\ optobj.optname = NullPtr /\ optobj.noptname = 0
          /\ optobj.optval = NullPtr /\ optobj.noptval = 0

\* id 0 was passed with a value that any option would accept
C29_Witness ==
  /\ AfterAssign /\ ~Passthrough /\ ~NameIsText
  /\ args.option.i = 0
  /\ ValueIsText /\ GivenValue = S_true
  /\ ret.error = "Unrecognized option"

====
